---- MODULE Spec2Model ----
(***************************************************************************)
(* Model of my_nyquist_calculator.py: the resolution model                 *)
(* (opt_resolution, plot_nyquist_criterion), the sampling-ratio field      *)
(* renderer (plot_pxl_per_blurr) with the pyplot state it touches, and the *)
(* Streamlit script that calls it.                                         *)
(*                                                                         *)
(* Python floats are IEEE-754 binary64.  The model keeps the format        *)
(* (sign, normalised mantissa, exponent, round-to-nearest-even after every *)
(* operation, inf, nan) and scales the mantissa width down to Prec bits.   *)
(***************************************************************************)
EXTENDS Integers, Sequences, FiniteSets, TLC

VARIABLES fn, figs, cur, run

vars == <<fn, figs, cur, run>>

-----------------------------------------------------------------------------
(* Floating point *)

Prec == 8

RECURSIVE Pow2(_)
Pow2(n) == IF n <= 0 THEN 1 ELSE 2 * Pow2(n - 1)

Abs(i) == IF i < 0 THEN -i ELSE i

Min2(a, b) == IF a <= b THEN a ELSE b

\* n >= 2^Prec, value n * 2^e (plus a nonzero tail below n iff sticky):
\* drop low bits down to Prec bits, round to nearest, ties to even.
RECURSIVE ShiftRound(_, _, _)
ShiftRound(n, e, sticky) ==
    IF n >= Pow2(Prec + 1)
    THEN ShiftRound(n \div 2, e + 1, sticky \/ (n % 2 = 1))
    ELSE LET q  == n \div 2
             up == (n % 2 = 1) /\ (sticky \/ (q % 2 = 1))
             m  == IF up THEN q + 1 ELSE q
         IN  IF m = Pow2(Prec) THEN <<Pow2(Prec - 1), e + 2>> ELSE <<m, e + 1>>

\* num * 2^k with k the least exponent making the quotient by den at least
\* Prec + 1 bits wide
RECURSIVE ScaleUp(_, _, _)
ScaleUp(num, den, k) ==
    IF num >= den * Pow2(Prec) THEN <<num, k>> ELSE ScaleUp(2 * num, den, k + 1)

\* the float nearest to num / den (num, den > 0), as <<mantissa, exponent>>
RoundRat(num, den) ==
    LET s == ScaleUp(num, den, 0)
    IN  ShiftRound(s[1] \div den, -s[2], (s[1] % den) # 0)

\* Values: a finite float s * m * 2^e (m = 0, or 2^(Prec-1) <= m < 2^Prec),
\* an infinity, a nan, or a raised exception.  np tells a numpy value
\* (ndarray element, np.float64) from a Python scalar.
Fin(s, m, e, np) == [k |-> "fin", s |-> s, m |-> m, e |-> e, np |-> np]
Zero(np)   == Fin(1, 0, 0, np)
Inf(s, np) == [k |-> "inf", s |-> s, m |-> 0, e |-> 0, np |-> np]
NaN(np)    == [k |-> "nan", s |-> 1, m |-> 0, e |-> 0, np |-> np]
Raised     == [k |-> "raise", s |-> 1, m |-> 0, e |-> 0, np |-> FALSE]

\* the place of an argument the call does not pass
Omitted    == [k |-> "omitted", s |-> 1, m |-> 0, e |-> 0, np |-> FALSE]

\* the Python float written num/den as a decimal literal, or the int num
PyNum(num, den) ==
    IF num = 0 THEN Zero(FALSE)
    ELSE LET r == RoundRat(Abs(num), den)
         IN  Fin(IF num < 0 THEN -1 ELSE 1, r[1], r[2], FALSE)

\* the same number as an element of a numpy array
NpNum(num, den) == [PyNum(num, den) EXCEPT !.np = TRUE]

AsNp(v) == [v EXCEPT !.np = TRUE]

\* the number a value holds, whatever library holds it
Num(v) == [v EXCEPT !.np = FALSE]

IsZero(v)   == v.k = "fin" /\ v.m = 0
IsFinite(v) == v.k = "fin"

\* a * b
Mul(a, b) ==
    LET np == a.np \/ b.np
        s  == a.s * b.s
    IN  IF a.k = "raise" \/ b.k = "raise" THEN Raised
        ELSE IF a.k = "nan" \/ b.k = "nan" THEN NaN(np)
        ELSE IF a.k = "inf" \/ b.k = "inf"
             THEN IF IsZero(a) \/ IsZero(b) THEN NaN(np) ELSE Inf(s, np)
        ELSE IF a.m = 0 \/ b.m = 0 THEN Zero(np)
        ELSE LET r == ShiftRound(a.m * b.m, a.e + b.e, FALSE)
             IN  Fin(s, r[1], r[2], np)

\* a / b: a Python scalar divided by a Python zero raises ZeroDivisionError,
\* numpy returns inf or nan
Div(a, b) ==
    LET np == a.np \/ b.np
        s  == a.s * b.s
    IN  IF a.k = "raise" \/ b.k = "raise" THEN Raised
        ELSE IF a.k = "nan" \/ b.k = "nan" THEN NaN(np)
        ELSE IF IsZero(b)
             THEN IF ~np THEN Raised
                  ELSE IF IsZero(a) THEN NaN(np) ELSE Inf(s, np)
        ELSE IF a.k = "inf"
             THEN IF b.k = "inf" THEN NaN(np) ELSE Inf(s, np)
        ELSE IF b.k = "inf" \/ a.m = 0 THEN Zero(np)
        ELSE LET r == RoundRat(a.m, b.m)
             IN  Fin(s, r[1], r[2] + a.e - b.e, np)

\* a < b for finite a, b
Less(a, b) ==
    IF IsZero(a) /\ IsZero(b) THEN FALSE
    ELSE IF IsZero(a) THEN b.s = 1
    ELSE IF IsZero(b) THEN a.s = -1
    ELSE IF a.s # b.s THEN a.s < b.s
    ELSE IF a.s = 1 THEN a.e < b.e \/ (a.e = b.e /\ a.m < b.m)
    ELSE b.e < a.e \/ (a.e = b.e /\ b.m < a.m)

Leq(a, b) == Less(a, b) \/ Num(a) = Num(b)

\* the next float above a finite positive a
NextAfter(a) ==
    IF a.m + 1 = Pow2(Prec) THEN [a EXCEPT !.m = Pow2(Prec - 1), !.e = a.e + 1]
    ELSE [a EXCEPT !.m = a.m + 1]

FarApart == Pow2(Prec)

\* distance of two finite positive floats in units in the last place of the
\* smaller one (FarApart when they are binades apart or not both positive)
Ulps(a, b) ==
    IF Num(a) = Num(b) THEN 0
    ELSE IF ~(IsFinite(a) /\ IsFinite(b)) \/ a.m = 0 \/ b.m = 0
            \/ a.s # 1 \/ b.s # 1 \/ Abs(a.e - b.e) > 2 THEN FarApart
    ELSE LET e0 == Min2(a.e, b.e)
         IN  Abs(a.m * Pow2(a.e - e0) - b.m * Pow2(b.e - e0))

-----------------------------------------------------------------------------
(* Resolution model *)

\* default of additional_mag
additional_mag_default == PyNum(1, 1)

\* opt_resolution without the conversion from nanometres to micrometres
opt_resolution_Nanometres(wavelength_nm, objective_mag, numerical_aperture, additional_mag) ==
    LET resolution_um == Div(Mul(PyNum(61, 100), wavelength_nm), numerical_aperture)
        total_mag     == Mul(objective_mag, additional_mag)
    IN  Mul(resolution_um, total_mag)

\* opt_resolution multiplying by the numerical aperture instead of dividing
opt_resolution_TimesAperture(wavelength_nm, objective_mag, numerical_aperture, additional_mag) ==
    LET wavelength_um == Div(wavelength_nm, PyNum(1000, 1))
        resolution_um == Mul(Mul(PyNum(61, 100), wavelength_um), numerical_aperture)
        total_mag     == Mul(objective_mag, additional_mag)
    IN  Mul(resolution_um, total_mag)

opt_resolution(wavelength_nm, objective_mag, numerical_aperture, additional_mag) ==
    LET wavelength_um == Div(wavelength_nm, PyNum(1000, 1))
        resolution_um == Div(Mul(PyNum(61, 100), wavelength_um), numerical_aperture)
        total_mag     == Mul(objective_mag, additional_mag)
        camera_res_um == Mul(resolution_um, total_mag)
    IN  camera_res_um

\* plot_nyquist_criterion without the additional magnification
plot_nyquist_criterion_NoAddMag(wavelength_nm, objective_mag, additional_mag, pxl_ref, ny_lim) ==
    Div(Mul(Mul(Div(PyNum(61, 100), Mul(ny_lim, PyNum(1000, 1))),
                wavelength_nm), objective_mag), pxl_ref)

plot_nyquist_criterion(wavelength_nm, objective_mag, additional_mag, pxl_ref, ny_lim) ==
    Div(Mul(Mul(Mul(Div(PyNum(61, 100), Mul(ny_lim, PyNum(1000, 1))),
                    wavelength_nm), objective_mag), additional_mag), pxl_ref)

-----------------------------------------------------------------------------
(* numpy arrays: a 2-D array is a sequence of rows *)

\* np.meshgrid(x, y, indexing="ij"): both of shape (len(x), len(y))
meshgrid_ij(x, y) ==
    [X |-> [i \in 1..Len(x) |-> [j \in 1..Len(y) |-> AsNp(x[i])]],
     Y |-> [i \in 1..Len(x) |-> [j \in 1..Len(y) |-> AsNp(y[j])]]]

\* X, Y = np.meshgrid(x, y): both of shape (len(y), len(x))
meshgrid(x, y) ==
    [X |-> [i \in 1..Len(y) |-> [j \in 1..Len(x) |-> AsNp(x[j])]],
     Y |-> [i \in 1..Len(y) |-> [j \in 1..Len(x) |-> AsNp(y[i])]]]

\* the elements of a 2-D array in row-major (C) order
Flatten(a) ==
    LET c == Len(a[1])
    IN  [n \in 1..(Len(a) * c) |-> a[((n - 1) \div c) + 1][((n - 1) % c) + 1]]

\* a.reshape(r, c)
Reshape(a, r, c) ==
    LET flat == Flatten(a)
    IN  [i \in 1..r |-> [j \in 1..c |-> flat[(i - 1) * c + j]]]

\* min(seq), max(seq) of a non-empty Python list of finite numbers
RECURSIVE SeqMin(_)
SeqMin(q) ==
    IF Len(q) = 1 THEN q[1]
    ELSE LET r == SeqMin(Tail(q)) IN IF Less(r, q[1]) THEN r ELSE q[1]

RECURSIVE SeqMax(_)
SeqMax(q) ==
    IF Len(q) = 1 THEN q[1]
    ELSE LET r == SeqMax(Tail(q)) IN IF Less(q[1], r) THEN r ELSE q[1]

\* list.index(v): the first position holding v
Index(q, v) == CHOOSE i \in 1..Len(q) : q[i] = v /\ \A j \in 1..(i - 1) : q[j] # v

-----------------------------------------------------------------------------
(* Sampling-ratio field renderer: plot_pxl_per_blurr *)

NoArg == "omitted"

xscale_default == "log"
yscale_default == "lin"

\* the scale names matplotlib registers; set_xscale/set_yscale raise
\* ValueError on any other name
ScaleNames == {"linear", "log", "symlog", "logit", "asinh", "function", "functionlog"}

\* the parameters of plot_pxl_per_blurr as bound by a call
BindArgs(magnification, num_aprt, wavelength_nm, pxl_ref, additional_mag, xscale, yscale) ==
    [magnification |-> magnification, num_aprt |-> num_aprt,
     wavelength_nm |-> wavelength_nm, pxl_ref |-> pxl_ref,
     additional_mag |-> additional_mag,
     xscale |-> IF xscale = NoArg THEN xscale_default ELSE xscale,
     yscale |-> IF yscale = NoArg THEN yscale_default ELSE yscale]

\* the field computed on the magnification axis as a logarithmic x axis
\* lays it out, right to left
FieldZ_OnDrawnAxis(a) ==
    LET n == Len(a.magnification)
        x == IF a.xscale = "log" THEN [j \in 1..n |-> a.magnification[n + 1 - j]]
             ELSE a.magnification
        g == meshgrid(x, a.num_aprt)
        px_per_blurr ==
            [i \in 1..Len(g.X) |-> [j \in 1..Len(g.X[i]) |->
                Div(opt_resolution(a.wavelength_nm, g.X[i][j], g.Y[i][j],
                                   a.additional_mag), a.pxl_ref)]]
    IN  Reshape(px_per_blurr, Len(a.num_aprt), Len(a.magnification))

\* lines 35-40: the field Z
FieldZ(a) ==
    LET g == meshgrid(a.magnification, a.num_aprt)
        px_per_blurr ==
            [i \in 1..Len(g.X) |-> [j \in 1..Len(g.X[i]) |->
                Div(opt_resolution(a.wavelength_nm, g.X[i][j], g.Y[i][j],
                                   a.additional_mag), a.pxl_ref)]]
    IN  Reshape(px_per_blurr, Len(a.num_aprt), Len(a.magnification))

vmin == PyNum(0, 1)
vmax == PyNum(4, 1)

\* imshow without vmin and vmax: the colour scale spans the finite data
NewFigure_Autoscale(a) ==
    LET Z      == FieldZ(a)
        finite == SelectSeq(Flatten(Z), IsFinite)
    IN  [Z       |-> Z,
         vmin    |-> IF finite = << >> THEN PyNum(0, 1) ELSE Num(SeqMin(finite)),
         vmax    |-> IF finite = << >> THEN PyNum(1, 1) ELSE Num(SeqMax(finite)),
         extent  |-> <<SeqMin(a.magnification), SeqMax(a.magnification),
                       SeqMin(a.num_aprt), SeqMax(a.num_aprt)>>,
         lines   |-> << >>,
         legend  |-> << >>,
         xscale  |-> "linear",
         yscale  |-> "linear",
         call    |-> a]

\* lines 42-53: the figure plt.subplots creates, with the image imshow puts
\* on its axes.  Axes start with linear scales, no lines and no legend.
\* call remembers the arguments of the creating call.
NewFigure(a) ==
    [Z       |-> FieldZ(a),
     vmin    |-> vmin,
     vmax    |-> vmax,
     extent  |-> <<SeqMin(a.magnification), SeqMax(a.magnification),
                   SeqMin(a.num_aprt), SeqMax(a.num_aprt)>>,
     lines   |-> << >>,
     legend  |-> << >>,
     xscale  |-> "linear",
     yscale  |-> "linear",
     call    |-> a]

ny_lim_lines == <<PyNum(2, 1), PyNum(23, 10), PyNum(3, 1)>>

\* str.format of the three thresholds (the shortest text that reads back as
\* the float: the text of the literal)
ny_lim_text == <<"2.0", "2.3", "3.0">>

linestyles == <<"-.", "-", "--">>

\* lines 57-63: the Line2D of the k-th threshold, as plotted by the call
\* that created figure number by
Curve(a, k, by) ==
    LET ny_lim == ny_lim_lines[k]
    IN  [x     |-> a.magnification,
         y     |-> [n \in 1..Len(a.magnification) |->
                       plot_nyquist_criterion(a.wavelength_nm, a.magnification[n],
                                              a.additional_mag, a.pxl_ref, ny_lim)],
         style |-> linestyles[Index(ny_lim_lines, ny_lim)],
         label |-> <<"$\\phi$ = ", ny_lim_text[Index(ny_lim_lines, ny_lim)]>>,
         by    |-> by]

\* plt.legend(): one entry per labelled line of the axes
LegendOf(f) == [n \in 1..Len(f.lines) |-> f.lines[n].label]

-----------------------------------------------------------------------------
(* matplotlib colour mapping of the image: Normalize(vmin, vmax) followed   *)
(* by a colormap of LutSize entries whose under and over colours are its    *)
(* first and last entry; masked (non-finite) cells get the bad colour,      *)
(* entry LutSize + 2 of the lookup table.                                   *)

LutSize == 256

BadColour == LutSize + 2

\* s * m * 2^(e - e0), the float as a multiple of 2^e0
Scaled(v, e0) == v.s * v.m * Pow2(v.e - e0)

ColourOf(f, v) ==
    IF ~IsFinite(v) THEN BadColour
    ELSE LET es == {x.e : x \in {y \in {v, f.vmin, f.vmax} : y.m # 0}}
             e0 == IF es = {} THEN 0 ELSE CHOOSE e \in es : \A d \in es : e <= d
             V  == Scaled(v, e0)
             lo == Scaled(f.vmin, e0)
             hi == Scaled(f.vmax, e0)
         IN  IF hi = lo THEN 0
             ELSE IF V < lo THEN 0
             ELSE IF V >= hi THEN LutSize - 1
             ELSE ((V - lo) * LutSize) \div (hi - lo)

-----------------------------------------------------------------------------
(* Callers of plot_pxl_per_blurr, pyplot's registry of figures (figs) and   *)
(* its current figure (cur).  Each caller is a thread: a Streamlit session  *)
(* running the script, or a program calling the function directly.          *)

Callers == {1, 2}

MaxOpen == 2

\* no call yet
NoArgs == [magnification |-> << >>, num_aprt |-> << >>, wavelength_nm |-> Omitted,
           pxl_ref |-> Omitted, additional_mag |-> Omitted,
           xscale |-> NoArg, yscale |-> NoArg]

IdleRun == [pc |-> "idle", args |-> NoArgs, fig |-> 0, k |-> 0, ret |-> 0]

\* lines 35-53 of a call by c with the bound parameters a
Begin(c, a) ==
    /\ Len(figs) < MaxOpen
    /\ figs' = Append(figs, NewFigure(a))
    /\ cur' = Len(figs) + 1
    /\ run' = [run EXCEPT ![c] = [pc |-> "plot", args |-> a,
                                  fig |-> Len(figs) + 1, k |-> 1, ret |-> 0]]
    /\ UNCHANGED fn

\* lines 56-63, one iteration: plt.plot draws on the axes of pyplot's
\* current figure
PlotCurve(c) ==
    /\ run[c].pc = "plot"
    /\ figs' = [figs EXCEPT ![cur].lines =
                    Append(@, Curve(run[c].args, run[c].k, run[c].fig))]
    /\ run' = [run EXCEPT ![c].k = @ + 1,
                          ![c].pc = IF run[c].k = Len(ny_lim_lines)
                                    THEN "legend" ELSE "plot"]
    /\ UNCHANGED <<fn, cur>>

\* line 65: plt.legend() on the axes of pyplot's current figure
Legend(c) ==
    /\ run[c].pc = "legend"
    /\ figs' = [figs EXCEPT ![cur].legend = LegendOf(figs[cur])]
    /\ run' = [run EXCEPT ![c].pc = "scale"]
    /\ UNCHANGED <<fn, cur>>

\* lines 86-108: labels, grid and scales on the call's own axes, colour
\* bar, return fig.  set_xscale and set_yscale raise on an unknown name.
Finish(c) ==
    /\ run[c].pc = "scale"
    /\ LET a == run[c].args
           n == run[c].fig
       IN  IF a.xscale \notin ScaleNames
           THEN /\ run' = [run EXCEPT ![c].pc = "raised"]
                /\ UNCHANGED figs
           ELSE IF a.yscale \notin ScaleNames
           THEN /\ run' = [run EXCEPT ![c].pc = "raised"]
                /\ figs' = [figs EXCEPT ![n].xscale = a.xscale]
           ELSE /\ run' = [run EXCEPT ![c].pc = "returned", ![c].ret = n]
                /\ figs' = [figs EXCEPT ![n].xscale = a.xscale,
                                        ![n].yscale = a.yscale]
    /\ UNCHANGED <<fn, cur>>

-----------------------------------------------------------------------------
(* Direct calls of the two model functions with scalar arguments *)

Wavelengths == {PyNum(0, 1), PyNum(500, 1), NextAfter(PyNum(500, 1)),
                NextAfter(NextAfter(PyNum(500, 1))), PyNum(900, 1)}
Mags        == {PyNum(20, 1), PyNum(40, 1), NextAfter(PyNum(40, 1))}
Apertures   == {PyNum(0, 1), PyNum(1, 4), PyNum(95, 100), NextAfter(PyNum(95, 100))}
AddMags     == {PyNum(1, 1), PyNum(5, 2)}
PixelSizes  == {PyNum(65, 10), PyNum(25, 10)}
Thresholds  == {PyNum(2, 1), PyNum(23, 10), PyNum(3, 1)}

Positive(v) == v.k = "fin" /\ v.s = 1 /\ v.m > 0

\* the value bound to additional_mag in the call the state describes
BoundAddMag == IF fn.additional_mag = Omitted THEN additional_mag_default
               ELSE fn.additional_mag

FnIdle == [pc |-> "idle", wavelength_nm |-> Omitted, objective_mag |-> Omitted,
           numerical_aperture |-> Omitted, additional_mag |-> Omitted,
           pxl_ref |-> Omitted, ny_lim |-> Omitted,
           res |-> Omitted, na |-> Omitted, phi |-> Omitted]

InitFn ==
    /\ \E w \in Wavelengths, M \in Mags, NA \in Apertures,
          A \in AddMags \cup {Omitted}, p \in PixelSizes, t \in Thresholds :
          fn = [FnIdle EXCEPT !.pc = "args", !.wavelength_nm = w,
                              !.objective_mag = M, !.numerical_aperture = NA,
                              !.additional_mag = A, !.pxl_ref = p, !.ny_lim = t]
    /\ figs = << >>
    /\ cur = 0
    /\ run = [c \in Callers |-> IdleRun]

\* camera_res_um = opt_resolution(wavelength_nm, objective_mag, numerical_aperture[, additional_mag])
CallOptResolution ==
    /\ fn.pc = "args"
    /\ fn' = [fn EXCEPT !.pc = "forward",
                        !.res = opt_resolution(fn.wavelength_nm, fn.objective_mag,
                                               fn.numerical_aperture, BoundAddMag)]
    /\ UNCHANGED <<figs, cur, run>>

\* num_aprt = plot_nyquist_criterion(wavelength_nm, objective_mag, additional_mag, pxl_ref, ny_lim)
CallNyquistCriterion ==
    /\ fn.pc = "args"
    /\ fn.additional_mag # Omitted
    /\ fn' = [fn EXCEPT !.pc = "inverse",
                        !.na = plot_nyquist_criterion(fn.wavelength_nm, fn.objective_mag,
                                   fn.additional_mag, fn.pxl_ref, fn.ny_lim)]
    /\ UNCHANGED <<figs, cur, run>>

\* opt_resolution(wavelength_nm, objective_mag, num_aprt, additional_mag) / pxl_ref
FeedBack ==
    /\ fn.pc = "inverse"
    /\ fn' = [fn EXCEPT !.pc = "fedback",
                        !.phi = Div(opt_resolution(fn.wavelength_nm, fn.objective_mag,
                                                   fn.na, fn.additional_mag), fn.pxl_ref)]
    /\ UNCHANGED <<figs, cur, run>>

NextFn == CallOptResolution \/ CallNyquistCriterion \/ FeedBack

SpecFn == InitFn /\ [][NextFn]_vars

PositiveArgs ==
    /\ Positive(fn.wavelength_nm) /\ Positive(fn.objective_mag)
    /\ Positive(fn.numerical_aperture) /\ Positive(BoundAddMag)

-----------------------------------------------------------------------------
(* The Streamlit script, lines 127-139: one run per session and interaction *)

\* the slider values the model draws from (wavelength 200..900 step 10,
\* pixel size 1.0..13.0 step 0.1, additional magnification 1.0..5.0 step 0.1)
SliderWavelength == {PyNum(500, 1), PyNum(600, 1)}
SliderPixelSize  == {PyNum(65, 10)}
SliderAddMag     == {PyNum(1, 1)}

RadioOptions == {"log", "linear"}

\* list(np.linspace(1, 101, 400)), with MagPoints points instead of 400
MagPoints == 3
HostMagnification ==
    [i \in 1..MagPoints |-> NpNum((MagPoints - 1) + 100 * (i - 1), MagPoints - 1)]

\* list(np.arange(0.095, 1.6, 0.02)), with a step of NaStep thousandths
\* instead of 20
NaStep == 500
HostNumAprt ==
    [i \in 1..((1600 - 95 + NaStep - 1) \div NaStep) |-> NpNum(95 + NaStep * (i - 1), 1000)]

\* lines 127-138: read the widgets, build the axes, enter plot_pxl_per_blurr
ScriptRun(c) ==
    /\ run[c].pc \in {"idle", "shown"}
    /\ \E wavelength \in SliderWavelength, pxl_ref \in SliderPixelSize,
          add_mag \in SliderAddMag,
          xscale_choice \in RadioOptions, yscale_choice \in RadioOptions :
          Begin(c, BindArgs(HostMagnification, HostNumAprt, wavelength, pxl_ref,
                            add_mag, xscale_choice, yscale_choice))

\* line 139: st.pyplot(fig) renders the returned figure; fig is given, so
\* the figure is neither cleared nor closed
Show(c) ==
    /\ run[c].pc = "returned"
    /\ run' = [run EXCEPT ![c].pc = "shown"]
    /\ UNCHANGED <<fn, figs, cur>>

Init ==
    /\ fn = FnIdle
    /\ figs = << >>
    /\ cur = 0
    /\ run = [c \in Callers |-> IdleRun]

Next ==
    \E c \in Callers :
        ScriptRun(c) \/ PlotCurve(c) \/ Legend(c) \/ Finish(c) \/ Show(c)

Spec == Init /\ [][Next]_vars

-----------------------------------------------------------------------------
(* A single-threaded program calling plot_pxl_per_blurr directly, again and *)
(* again on one data set, with or without the scale arguments               *)

ApiMagnifications == {<<PyNum(40, 1)>>, <<PyNum(-20, 1), PyNum(40, 1), PyNum(100, 1)>>}
ApiApertures      == {<<PyNum(1, 4), PyNum(95, 100)>>, <<PyNum(0, 1), PyNum(95, 100)>>}
ApiWavelengths    == {PyNum(0, 1), PyNum(500, 1)}
ApiAddMags        == {PyNum(1, 1), PyNum(5, 2)}
ApiPixelSizes     == {PyNum(65, 10)}
ApiScales         == (RadioOptions \cup {NoArg}) \X (RadioOptions \cup {NoArg})

\* the program's one thread
Program == CHOOSE c \in Callers : \A d \in Callers : c <= d

InitApi ==
    /\ fn = FnIdle
    /\ figs = << >>
    /\ cur = 0
    /\ \E magnification \in ApiMagnifications, num_aprt \in ApiApertures,
          wavelength_nm \in ApiWavelengths, pxl_ref \in ApiPixelSizes,
          additional_mag \in ApiAddMags :
          run = [c \in Callers |->
                   IF c = Program
                   THEN [IdleRun EXCEPT !.args =
                            [NoArgs EXCEPT !.magnification = magnification,
                                           !.num_aprt = num_aprt,
                                           !.wavelength_nm = wavelength_nm,
                                           !.pxl_ref = pxl_ref,
                                           !.additional_mag = additional_mag]]
                   ELSE IdleRun]

\* plot_pxl_per_blurr(magnification, num_aprt, wavelength_nm, pxl_ref,
\*                    additional_mag[, xscale=..., yscale=...])
ApiCall(c) ==
    /\ run[c].pc \in {"idle", "returned", "raised"}
    /\ \E sc \in ApiScales :
          Begin(c, BindArgs(run[c].args.magnification, run[c].args.num_aprt,
                            run[c].args.wavelength_nm, run[c].args.pxl_ref,
                            run[c].args.additional_mag, sc[1], sc[2]))

NextApi == ApiCall(Program) \/ PlotCurve(Program) \/ Legend(Program) \/ Finish(Program)

SpecApi == InitApi /\ [][NextApi]_vars

-----------------------------------------------------------------------------
(* Properties of the resolution model, under SpecFn *)

Two  == PyNum(2, 1)
Four == PyNum(4, 1)

\* 0.61 * (wavelength_nm / 1000) / numerical_aperture * objective_mag * additional_mag,
\* evaluated left to right
ForwardFormula(wavelength_nm, objective_mag, numerical_aperture, additional_mag) ==
    Mul(Mul(Div(Mul(PyNum(61, 100), Div(wavelength_nm, PyNum(1000, 1))),
                numerical_aperture), objective_mag), additional_mag)

IsExample ==
    /\ fn.wavelength_nm = PyNum(500, 1) /\ fn.objective_mag = PyNum(40, 1)
    /\ fn.numerical_aperture = PyNum(95, 100) /\ fn.additional_mag = Omitted

\* C1: for positive arguments opt_resolution returns
\* 0.61 * (wavelength_nm / 1000) / numerical_aperture * objective_mag * additional_mag
\* up to rounding (4 units in the last place); a call that omits
\* additional_mag returns what additional_mag = 1 returns; wavelength 500,
\* magnification 40, NA 0.95 give 12.842 up to rounding.
C1_ForwardFormula ==
    fn.pc = "forward" /\ PositiveArgs =>
        /\ Ulps(fn.res, ForwardFormula(fn.wavelength_nm, fn.objective_mag,
                                       fn.numerical_aperture, BoundAddMag)) <= 4
        /\ fn.additional_mag = Omitted =>
               fn.res = opt_resolution(fn.wavelength_nm, fn.objective_mag,
                                       fn.numerical_aperture, PyNum(1, 1))
        /\ IsExample => Ulps(fn.res, PyNum(12842, 1000)) <= 4

C1_Witness == fn.pc = "forward" /\ IsExample /\ IsFinite(fn.res)

\* C2: for positive arguments, the numerical aperture plot_nyquist_criterion
\* returns, fed back into opt_resolution and divided by pxl_ref, gives
\* ny_lim up to rounding (12 units in the last place: eleven operations).
C2_InverseLaw ==
    (/\ fn.pc = "fedback"
     /\ Positive(fn.wavelength_nm) /\ Positive(fn.objective_mag)
     /\ Positive(fn.additional_mag) /\ Positive(fn.pxl_ref) /\ Positive(fn.ny_lim))
        => Ulps(fn.phi, fn.ny_lim) <= 12

C2_Witness ==
    /\ fn.pc = "fedback" /\ Positive(fn.wavelength_nm)
    /\ fn.additional_mag = PyNum(5, 2) /\ fn.ny_lim = PyNum(23, 10)
    /\ Ulps(fn.phi, fn.ny_lim) \in 1..12

\* C9 as stated: over positive arguments the result of opt_resolution is
\* strictly increasing in wavelength_nm, objective_mag and additional_mag
\* and strictly decreasing in numerical_aperture.
C9_StrictlyMonotone ==
    fn.pc = "forward" /\ PositiveArgs =>
        /\ \A w \in Wavelengths : Less(fn.wavelength_nm, w) =>
              Less(fn.res, opt_resolution(w, fn.objective_mag, fn.numerical_aperture, BoundAddMag))
        /\ \A M \in Mags : Less(fn.objective_mag, M) =>
              Less(fn.res, opt_resolution(fn.wavelength_nm, M, fn.numerical_aperture, BoundAddMag))
        /\ \A A \in AddMags : Less(BoundAddMag, A) =>
              Less(fn.res, opt_resolution(fn.wavelength_nm, fn.objective_mag, fn.numerical_aperture, A))
        /\ \A NA \in Apertures : Less(fn.numerical_aperture, NA) =>
              Less(opt_resolution(fn.wavelength_nm, fn.objective_mag, NA, BoundAddMag), fn.res)

\* C9 as amended: over positive arguments the result of opt_resolution
\* never decreases when wavelength_nm, objective_mag or additional_mag
\* grows and never increases when numerical_aperture grows (arguments that
\* are neighbouring floats can give the same result).
C9_Monotone ==
    fn.pc = "forward" /\ PositiveArgs =>
        /\ \A w \in Wavelengths : Less(fn.wavelength_nm, w) =>
              Leq(fn.res, opt_resolution(w, fn.objective_mag, fn.numerical_aperture, BoundAddMag))
        /\ \A M \in Mags : Less(fn.objective_mag, M) =>
              Leq(fn.res, opt_resolution(fn.wavelength_nm, M, fn.numerical_aperture, BoundAddMag))
        /\ \A A \in AddMags : Less(BoundAddMag, A) =>
              Leq(fn.res, opt_resolution(fn.wavelength_nm, fn.objective_mag, fn.numerical_aperture, A))
        /\ \A NA \in Apertures : Less(fn.numerical_aperture, NA) =>
              Leq(opt_resolution(fn.wavelength_nm, fn.objective_mag, NA, BoundAddMag), fn.res)

\* a larger wavelength with the same result, and a larger one with a larger result
C9_Witness ==
    /\ fn.pc = "forward" /\ PositiveArgs
    /\ \E w \in Wavelengths :
          /\ Less(fn.wavelength_nm, w)
          /\ fn.res = opt_resolution(w, fn.objective_mag, fn.numerical_aperture, BoundAddMag)
    /\ \E w \in Wavelengths :
          Less(fn.res, opt_resolution(w, fn.objective_mag, fn.numerical_aperture, BoundAddMag))
    /\ \E NA \in Apertures :
          Less(opt_resolution(fn.wavelength_nm, fn.objective_mag, NA, BoundAddMag), fn.res)

-----------------------------------------------------------------------------
(* Properties of the renderer, under SpecApi and Spec *)

Figures == 1..Len(figs)

\* the arguments of a call but for the scale selectors
Data(a) == <<a.magnification, a.num_aprt, a.wavelength_nm, a.pxl_ref, a.additional_mag>>

Cells(f) == {<<i, j>> : i \in 1..Len(f.Z), j \in 1..Len(f.call.magnification)}

\* C3: Z has shape (len(num_aprt), len(magnification)) and Z[i][j] is
\* opt_resolution(wavelength_nm, magnification[j], num_aprt[i], additional_mag) / pxl_ref
\* (evaluated as numpy evaluates it on array elements).
C3_FieldShapeAndEntries ==
    \A n \in Figures :
        LET f == figs[n]
            a == f.call
        IN  /\ Len(f.Z) = Len(a.num_aprt)
            /\ \A i \in 1..Len(f.Z) : Len(f.Z[i]) = Len(a.magnification)
            /\ \A i \in 1..Len(a.num_aprt), j \in 1..Len(a.magnification) :
                  Num(f.Z[i][j]) =
                      Num(Div(opt_resolution(a.wavelength_nm, AsNp(a.magnification[j]),
                                             AsNp(a.num_aprt[i]), a.additional_mag),
                              a.pxl_ref))

\* a field of two rows and three columns whose entries differ along both axes
C3_Witness ==
    \E n \in Figures :
        /\ Len(figs[n].Z) = Len(figs[n].call.num_aprt) /\ Len(figs[n].Z) # Len(figs[n].Z[1])
        /\ Len(figs[n].Z[1]) > Len(figs[n].Z)
        /\ Positive(figs[n].Z[1][2]) /\ Positive(figs[n].Z[2][3])
        /\ figs[n].Z[1][2] # figs[n].Z[2][2] /\ figs[n].Z[1][2] # figs[n].Z[1][3]
        /\ figs[n].call.additional_mag # PyNum(1, 1)

C8_ScaleIndependence ==
    \A m, n \in Figures :
        Data(figs[m].call) = Data(figs[n].call) =>
            /\ figs[m].Z = figs[n].Z
            /\ \A k \in 1..Len(ny_lim_lines) :
                  (k <= Len(figs[m].lines) /\ k <= Len(figs[n].lines)) =>
                      figs[m].lines[k].y = figs[n].lines[k].y

\* two finished figures of the same data, log/linear and linear/log
C8_Witness ==
    \E m, n \in Figures :
        /\ Data(figs[m].call) = Data(figs[n].call)
        /\ Len(figs[m].lines) = Len(ny_lim_lines) /\ Len(figs[n].lines) = Len(ny_lim_lines)
        /\ Len(figs[m].call.magnification) > 1
        /\ figs[m].xscale = "log" /\ figs[m].yscale = "linear"
        /\ figs[n].xscale = "linear" /\ figs[n].yscale = "log"
        /\ \A c \in Callers : run[c].pc \in {"idle", "returned"}

\* the overlay a call with the bound parameters a is to put on its figure
ExpectedCurveY(a, k) ==
    [i \in 1..Len(a.magnification) |->
        plot_nyquist_criterion(a.wavelength_nm, a.magnification[i],
                               a.additional_mag, a.pxl_ref, ny_lim_lines[k])]

OverlayOf(f, a) ==
    /\ Len(f.lines) = Len(ny_lim_lines)
    /\ \A k \in 1..Len(f.lines) :
          /\ f.lines[k].x = a.magnification
          /\ f.lines[k].y = ExpectedCurveY(a, k)
          /\ f.lines[k].label = <<"$\\phi$ = ", ny_lim_text[k]>>
          /\ \A l \in 1..Len(f.lines) : l # k => f.lines[l].style # f.lines[k].style
    /\ f.legend = [k \in 1..Len(ny_lim_lines) |-> <<"$\\phi$ = ", ny_lim_text[k]>>]

\* C5: the figure a call returns carries exactly one curve per threshold
\* 2.0, 2.3, 3.0, each the inverse model over the magnification axis with
\* the call's wavelength, additional magnification and pixel size, the
\* three with different dash patterns, and a legend entry per threshold.
C5_OverlayCurves ==
    \A c \in Callers :
        run[c].pc \in {"returned", "shown"} => OverlayOf(figs[run[c].ret], run[c].args)

\* C5 in a program of one thread: what holds of the overlay when no other
\* call runs between plt.subplots and plt.legend
C5_OverlayCurvesSequential ==
    run[Program].pc = "returned" => OverlayOf(figs[run[Program].ret], run[Program].args)

\* C6: a numerical aperture of 0 raises nothing: opt_resolution returns
\* inf or nan, the renderer returns a figure, and every inf or nan cell of
\* its field gets a colour of the [0, 4] scale.
C6_NoErrorOnZeroAperture ==
    /\ fn.pc = "forward" => fn.res.k # "raise"
    /\ \A n \in Figures : \A c \in Cells(figs[n]) :
          LET v == figs[n].Z[c[1]][c[2]]
          IN  /\ v.k # "raise"
              /\ ~IsFinite(v) => ColourOf(figs[n], v) \in 0..(LutSize - 1)

\* C7: a call changes nothing but the figure it creates: whenever no call
\* is running, pyplot's registry and current figure are what they were
\* before the first call, and every curve and legend entry of a figure was
\* put there by the call that created the figure.
C7_NoSharedState ==
    /\ (\A c \in Callers : run[c].pc \in {"idle", "returned", "shown", "raised"})
          => figs = << >> /\ cur = 0
    /\ \A n \in Figures :
          /\ \A k \in 1..Len(figs[n].lines) : figs[n].lines[k].by = n
          /\ \A k \in 1..Len(figs[n].legend) :
                k <= Len(figs[n].lines) /\ figs[n].lines[k].by = n

\* C10: the scales a call applies are "linear" or "log", also when the
\* call omits xscale or yscale, and no call fails on a scale name.
C10_ScalesSupported ==
    \A c \in Callers :
        /\ run[c].pc # "idle" => run[c].args.xscale \in RadioOptions
                                 /\ run[c].args.yscale \in RadioOptions
        /\ run[c].pc # "raised"

====
